---- MODULE Spec2Model ----
(***************************************************************************)
(* jira/jira-issues-to-dust.ts: the paginated fetch of JIRA issues         *)
(* (getIssuesUpdatedLast24Hours, makeRequest), the rate-limited delivery   *)
(* of one document per issue (limiter.schedule, upsertToDustDatasource)    *)
(* and the orchestration in main.                                          *)
(*                                                                         *)
(* An issue is identified by its position in the source's result set: the  *)
(* issue at 0-based offset o has key o+1.  Time is in milliseconds.        *)
(***************************************************************************)
EXTENDS Integers, Sequences, FiniteSets, TLC

\* ------------------------------------------------------------------ bounds

\* Largest total the source reports (three pages of maxResults).
MaxTotal == 122

\* Largest total of the small scenarios of the whole pipeline.
MaxSmall == 2

\* The destination may answer out of order: a delivery can resolve while
\* fewer than Reorder older deliveries are still unresolved.
Reorder == 2

\* The destination rejects the documents of at most one key, of 1..MaxRejectKey.
MaxRejectKey == 2

\* How many times minTime may pass while deliveries are in flight and no
\* start is scheduled.
MaxStall == 1

\* How many times the pipeline is run against the same destination.
MaxRuns == 2

\* A source that answers as it likes: a page holds at most MaxPageCount
\* issues and reports a total of at most MaxPageTotal; after MaxRequests
\* requests it only sends pages that end the loop.
MaxPageCount == 1

MaxPageTotal == 2

MaxRequests == 6

\* ------------------------------------------------------- program constants

maxResults == 50

RetryLimit == 3

DefaultRetryAfter == "60"

DUST_RATE_LIMIT == 120

maxConcurrentOne == DUST_RATE_LIMIT \div DUST_RATE_LIMIT

maxConcurrent == DUST_RATE_LIMIT

minTimeHalved == (60 * 1000) \div (2 * DUST_RATE_LIMIT)

minTime == (60 * 1000) \div DUST_RATE_LIMIT

\* The window of the limit "DUST_RATE_LIMIT requests per minute".
WindowMs == 60 * 1000

\* --------------------------------------------------------------- helpers

Min(a, b) == IF a < b THEN a ELSE b

Max(a, b) == IF a > b THEN a ELSE b

CeilDiv(a, b) == (a + b - 1) \div b

NoHeader == "absent"

NoError == [response |-> FALSE, status |-> -1]

VARIABLES
  pc,            \* where the process is: "config", "aborted" (the startup
                 \* check threw), and in main "request", "inflight",
                 \* "backoff", "return", "schedule", "await", "done"
  allIssues,     \* getIssuesUpdatedLast24Hours: accumulator (sequence of keys)
  startAt,       \* getIssuesUpdatedLast24Hours: offset of the next page
  total,         \* getIssuesUpdatedLast24Hours: total of the last merged page
  retryCount,    \* makeRequest: parameter of the running call
  retryAfter,    \* makeRequest: seconds of the pending setTimeout, 0 when none
  reqLog,        \* offsets of the jiraApi.post calls of this fetch, in order
  lastErr,       \* the error of the last rejected jiraApi.post, or NoError
  fetchEnd,      \* how the do-while loop ended: "running", "complete",
                 \* "exhausted" (a 429 with no retry left), "fault"
  pagesOk,       \* number of pages merged
  returnedError, \* the error the caller of the fetch receives with the result
  recentIssues,  \* main: the value the fetch resolved to
  status,        \* per task: "queued", "registered", "executing", "ok", "failed"
  posts,         \* per task: number of dustApi.post calls made for it
  runAt,         \* per task: time its execution is or was started, -1 before
  running,       \* limiter: jobs registered and not yet finished
  queued,        \* limiter: jobs waiting in its queue (the last ones submitted)
  started,       \* number of jobs whose execution started (the first ones)
  nextRequest,   \* limiter: earliest time of the next start
  clock,         \* time since the limiter was constructed
  stalls,        \* number of Tick steps taken
  outcome,       \* terminal report of main: "none", "success", "error"
  topError,      \* what main's catch received: "none", "fetch", "delivery"
  waited,        \* makeRequest: milliseconds the last setTimeout of this
                 \* iteration ran before its retry was issued, 0 when none
  advised,       \* the retry-after header of the last 429 that was retried
                 \* in this iteration, "none" when there was none
  rateLimited,   \* number of 429 responses received by this fetch
  firstTotal,    \* response.data.total of the first page merged, -1 before
  lastTotal,     \* response.data.total of the last page merged, -1 before
  srcTotal,      \* environment: size of the source's result set
  rejects,       \* environment: keys whose document the destination rejects
  hangs,         \* environment: keys whose dustApi.post is never answered
  env,           \* process.env: per required name "absent", "empty" or "set"
  missingEnvVars,\* the names listed by the startup error, in order
  run,           \* which run of the pipeline this is, from 1
  prevStore,     \* the destination's documents when this run started
  prevIssues,    \* the keys the previous run scheduled
  sample,        \* upsertToDustDatasource on its own: the issue, or Null
  rendered       \* upsertToDustDatasource on its own: the content built

retryVars == <<waited, advised, rateLimited>>

totalVars == <<firstTotal, lastTotal>>

fetchVars == <<allIssues, startAt, total, retryCount, retryAfter, reqLog,
               lastErr, fetchEnd, pagesOk, returnedError, recentIssues,
               retryVars, totalVars>>

sinkVars == <<status, posts, runAt, running, queued, started, nextRequest,
              clock, stalls>>

configVars == <<env, missingEnvVars>>

rerunVars == <<run, prevStore, prevIssues>>

formatVars == <<sample, rendered>>

\* The environment, and the state that no step of one run of main changes.
envVars == <<srcTotal, rejects, hangs, configVars, rerunVars, formatVars>>

vars == <<pc, fetchVars, sinkVars, outcome, topError, envVars>>

\* An optional value: Null, or Some(v).
Null == << >>

Some(v) == <<v>>

Range(f) == {f[i] : i \in DOMAIN f}

\* ------------------------------------------------- the startup check (18-38)

requiredEnvVarsWithoutVault ==
  <<"JIRA_SUBDOMAIN", "JIRA_EMAIL", "JIRA_API_TOKEN", "DUST_API_KEY",
    "DUST_WORKSPACE_ID", "DUST_DATASOURCE_ID">>

requiredEnvVars ==
  <<"JIRA_SUBDOMAIN", "JIRA_EMAIL", "JIRA_API_TOKEN", "DUST_API_KEY",
    "DUST_WORKSPACE_ID", "DUST_VAULT_ID", "DUST_DATASOURCE_ID">>

\* The names read from process.env (lines 9-16); JIRA_QUERY has a default.
EnvNames ==
  {"JIRA_SUBDOMAIN", "JIRA_EMAIL", "JIRA_API_TOKEN", "JIRA_QUERY",
   "DUST_API_KEY", "DUST_WORKSPACE_ID", "DUST_VAULT_ID", "DUST_DATASOURCE_ID"}

\* What process.env can hold for a name: nothing, "" or a value.
EnvValues == {"absent", "empty", "set"}

\* !process.env[varName]: undefined and the empty string are falsy.
Falsy(value) == value # "set"

\* requiredEnvVars.filter((varName) => !process.env[varName])
MissingEnvVars(e) ==
  SelectSeq(requiredEnvVars, LAMBDA varName : Falsy(e[varName]))

\* The module is loaded: the check throws before the API clients are created
\* and before main() is called, or lets the run start.
CheckConfig ==
  /\ pc = "config"
  /\ LET missing == MissingEnvVars(env)
     IN  /\ missingEnvVars' = missing
         /\ pc' = IF Len(missing) > 0 THEN "aborted" ELSE "request"
  /\ UNCHANGED <<fetchVars, sinkVars, outcome, topError, srcTotal, rejects,
                 hangs, env, rerunVars, formatVars>>

\* ------------------------------------------------------------ the source

\* The page the source returns at an offset: the keys offset+1 .. offset+count.
PageKeys(offset) ==
  LET count == Min(maxResults, Max(0, srcTotal - offset))
  IN  [i \in 1..count |-> offset + i]

\* An error of jiraApi.post: response is FALSE for a network error.
FetchErrors ==
  { [response |-> FALSE, status |-> 0],
    [response |-> TRUE,  status |-> 500],
    [response |-> TRUE,  status |-> 429] }

RetryAfterHeaders == {NoHeader, "2"}

\* ---------------------------------------------- getIssuesUpdatedLast24Hours

RetryableOffByOne(err, count) ==
  err.response /\ err.status = 429 /\ count <= RetryLimit

RetryableAnyStatus(err, count) ==
  err.response /\ count < RetryLimit

\* makeRequest's catch: is the request tried again?
Retryable(err, count) ==
  err.response /\ err.status = 429 /\ count < RetryLimit

\* parseInt(s, 10) on the decimal strings the model uses.
ParseInt(s) == CASE s = "2" -> 2 [] s = "60" -> 60

ParseRetryAfter(header) ==
  ParseInt(IF header = NoHeader THEN DefaultRetryAfter ELSE header)

LoopAgainEarlyStop(len, tot) == len + maxResults < tot

\* The condition of the do-while loop.
LoopAgain(len, tot) == len < tot

\* What the loop's catch leaves in the accumulator before the break.
KeptOnError(issues) == issues

CaughtByRethrow(kind) == IF kind = "exhausted" THEN "main" ELSE "loop"

\* Where an error thrown by makeRequest is caught: the catch of the loop
\* handles every error and breaks.
CaughtBy(kind) == "loop"

\* The first makeRequest() of an iteration: retryCount takes its default.
IssueRequest ==
  /\ pc = "request"
  /\ pc' = "inflight"
  /\ retryCount' = 0
  /\ reqLog' = Append(reqLog, startAt)
  /\ waited' = 0
  /\ advised' = "none"
  /\ UNCHANGED <<allIssues, startAt, total, retryAfter, lastErr, fetchEnd,
                 pagesOk, returnedError, recentIssues, rateLimited, totalVars,
                 sinkVars, outcome, topError, envVars>>

TotalOfFirstPage(old, reported) == IF pagesOk = 0 THEN reported ELSE old

\* total = response.data.total: the total of the page just merged replaces
\* the one kept from the page before.
TotalUsed(old, reported) == reported

NextOffsetByCount(offset, count) == offset + count

\* startAt += maxResults, whatever the number of issues of the page.
NextOffset(offset, count) == offset + maxResults

\* The body of the try of the loop after makeRequest() resolved with the
\* issues keys and the total reported, and the loop condition.
MergePage(keys, reported) ==
  LET merged == allIssues \o keys
      tot == TotalUsed(total, reported)
  IN  /\ allIssues' = merged
      /\ total' = tot
      /\ startAt' = NextOffset(startAt, Len(keys))
      /\ pagesOk' = pagesOk + 1
      /\ firstTotal' = IF pagesOk = 0 THEN reported ELSE firstTotal
      /\ lastTotal' = reported
      /\ IF LoopAgain(Len(merged), tot)
           THEN /\ pc' = "request"
                /\ fetchEnd' = fetchEnd
           ELSE /\ pc' = "return"
                /\ fetchEnd' = "complete"

\* jiraApi.post resolves: the page is merged and the loop condition decides.
RespondPage ==
  /\ pc = "inflight"
  /\ MergePage(PageKeys(startAt), srcTotal)
  /\ UNCHANGED <<retryCount, retryAfter, reqLog, lastErr, returnedError,
                 recentIssues, retryVars, sinkVars, outcome, topError, envVars>>

\* jiraApi.post resolves with a page of any size that reports any total: the
\* source need not hold what it reports.
RespondAnyPage ==
  /\ pc = "inflight"
  /\ \E count \in 0..MaxPageCount, reported \in 0..MaxPageTotal :
       /\ \/ Len(reqLog) < MaxRequests
          \/ ~LoopAgain(Len(allIssues) + count, TotalUsed(total, reported))
       /\ MergePage([i \in 1..count |-> startAt + i], reported)
  /\ UNCHANGED <<retryCount, retryAfter, reqLog, lastErr, returnedError,
                 recentIssues, retryVars, sinkVars, outcome, topError, envVars>>

\* jiraApi.post rejects: a 429 with a retry left waits, anything else is
\* thrown to the catch of the loop.
RequestFails ==
  /\ pc = "inflight"
  /\ \E err \in FetchErrors, header \in RetryAfterHeaders :
       /\ lastErr' = err
       /\ rateLimited' = IF err.response /\ err.status = 429
                           THEN rateLimited + 1 ELSE rateLimited
       /\ IF Retryable(err, retryCount)
         THEN /\ pc' = "backoff"
              /\ retryAfter' = ParseRetryAfter(header)
              /\ advised' = header
              /\ UNCHANGED <<allIssues, fetchEnd, outcome, topError>>
         ELSE LET kind == IF err.response /\ err.status = 429
                            THEN "exhausted" ELSE "fault"
              IN  /\ fetchEnd' = kind
                  /\ retryAfter' = retryAfter
                  /\ advised' = advised
                  /\ IF CaughtBy(kind) = "loop"
                       THEN /\ pc' = "return"
                            /\ allIssues' = KeptOnError(allIssues)
                            /\ UNCHANGED <<outcome, topError>>
                       ELSE /\ pc' = "done"
                            /\ allIssues' = << >>
                            /\ outcome' = "error"
                            /\ topError' = "fetch"
  /\ UNCHANGED <<startAt, total, retryCount, reqLog, pagesOk, returnedError,
                 recentIssues, waited, totalVars, sinkVars, envVars>>

RetryDelayMsUnscaled(seconds) == seconds

\* The delay given to setTimeout: retryAfter * 1000.
RetryDelayMs(seconds) == seconds * 1000

\* The setTimeout of the retry fires, its delay after it was set:
\* makeRequest(retryCount + 1).
WakeRetry ==
  /\ pc = "backoff"
  /\ pc' = "inflight"
  /\ retryCount' = retryCount + 1
  /\ waited' = RetryDelayMs(retryAfter)
  /\ retryAfter' = 0
  /\ reqLog' = Append(reqLog, startAt)
  /\ UNCHANGED <<allIssues, startAt, total, lastErr, fetchEnd, pagesOk,
                 returnedError, recentIssues, advised, rateLimited, totalVars,
                 sinkVars, outcome, topError, envVars>>

\* return allIssues: main receives the array, the locals of the call end.
Return ==
  /\ pc = "return"
  /\ pc' = "schedule"
  /\ recentIssues' = allIssues
  /\ returnedError' = "none"
  /\ allIssues' = << >>
  /\ startAt' = 0
  /\ total' = 0
  /\ retryCount' = 0
  /\ reqLog' = << >>
  /\ lastErr' = NoError
  /\ waited' = 0
  /\ advised' = "none"
  /\ rateLimited' = 0
  /\ firstTotal' = -1
  /\ lastTotal' = -1
  /\ UNCHANGED <<retryAfter, fetchEnd, pagesOk, sinkVars, outcome, topError,
                 envVars>>

\* ---------------------------------------------------- issues of the source

\* The fields of JiraIssue that may be null (description is read with ?.).
NullableFields ==
  {"description", "assignee", "resolutiondate", "resolution", "sprint", "epic",
   "timeoriginalestimate", "timeestimate", "timespent"}

\* A JiraIssue with key PRJ-k: the fields of nulls are null, the arrays hold
\* two elements when full and none otherwise.
IssueWith(k, nulls, full) ==
  LET Opt(name, v) == IF name \in nulls THEN Null ELSE Some(v)
      Two(v, w) == IF full THEN <<v, w>> ELSE << >>
      ada == [displayName |-> "Ada", emailAddress |-> "ada@example.com"]
      bob == [displayName |-> "Bob", emailAddress |-> "bob@example.com"]
      other == [key |-> "PRJ-9", fields |-> [summary |-> "Other"]]
      body == [content |-> <<[content |-> <<[text |-> "Looks "], [text |-> "good"]>>]>>]
  IN  [id |-> ToString(10000 + k),
       key |-> "PRJ-" \o ToString(k),
       self |-> "https://jira.example/rest/api/3/issue/" \o ToString(10000 + k),
       fields |->
         [summary |-> "Summary " \o ToString(k),
          description |-> Opt("description",
             [content |-> <<[content |-> Some(<<[text |-> "Steps "],
                                               [text |-> "to reproduce"]>>)]>>]),
          issuetype |-> [name |-> "Bug"],
          status |-> [name |-> "Open"],
          priority |-> [name |-> "High"],
          assignee |-> Opt("assignee", ada),
          reporter |-> bob,
          project |-> [key |-> "PRJ", name |-> "Project"],
          created |-> "2024-01-01T00:00:00.000+0000",
          updated |-> "2024-01-02T00:00:00.000+0000",
          resolutiondate |-> Opt("resolutiondate", "2024-01-03T00:00:00.000+0000"),
          resolution |-> Opt("resolution", [name |-> "Done"]),
          labels |-> Two("backend", "urgent"),
          components |-> Two([name |-> "api"], [name |-> "db"]),
          sprint |-> Opt("sprint", [name |-> "Sprint 1"]),
          epic |-> Opt("epic", [name |-> "Epic 1"]),
          timeoriginalestimate |-> Opt("timeoriginalestimate", 7200),
          timeestimate |-> Opt("timeestimate", 3600),
          timespent |-> Opt("timespent", 0),
          votes |-> [votes |-> 1],
          watches |-> [watchCount |-> 2],
          fixVersions |-> Two([name |-> "1.0"], [name |-> "1.1"]),
          versions |-> Two([name |-> "0.9"], [name |-> "0.8"]),
          subtasks |-> Two(other, other),
          issuelinks |-> Two([type |-> [name |-> "Blocks"],
                              inwardIssue |-> Null, outwardIssue |-> Some(other)],
                             [type |-> [name |-> "Relates"],
                              inwardIssue |-> Null, outwardIssue |-> Null]),
          attachment |-> Two([filename |-> "a.png", content |-> "https://a"],
                             [filename |-> "b.log", content |-> "https://b"]),
          comment |-> [comments |-> Two([author |-> ada, created |-> "2024-01-02",
                                         body |-> body],
                                        [author |-> bob, created |-> "2024-01-03",
                                         body |-> body])]]]

\* The issue the source holds under key k: the even keys have every nullable
\* field null and empty arrays.
Issue(k) == IssueWith(k, IF k % 2 = 0 THEN NullableFields ELSE {}, k % 2 = 1)

\* ------------------------------------------------ the document (246-329)
\* A text is the sequence of its lines: joining two texts with a newline is
\* their concatenation.  The strings of an issue hold no newline and no
\* leading or trailing blank.

RECURSIVE Join(_, _)
\* Array.prototype.join on strings.
Join(seq, sep) ==
  IF seq = << >> THEN ""
  ELSE IF Len(seq) = 1 THEN seq[1]
  ELSE seq[1] \o sep \o Join(Tail(seq), sep)

\* value || fallback on a string or null: null and "" are falsy.
TextOr(opt, fallback) ==
  IF opt = Null THEN fallback
  ELSE IF opt[1] = "" THEN fallback ELSE opt[1]

\* value || fallback on a number or null: null and 0 are falsy.
NumberOr(opt, fallback) ==
  IF opt = Null THEN fallback
  ELSE IF opt[1] = 0 THEN fallback ELSE ToString(opt[1])

\* The paragraphs of a rich-text body, one line each:
\* content.map((c) => c.content?.map((cc) => cc.text).join("")).join("\n")
Paragraphs(content) ==
  IF content = << >> THEN <<"">>
  ELSE [i \in DOMAIN content |->
          IF content[i].content = Null THEN ""
          ELSE Join([j \in DOMAIN content[i].content[1] |->
                       content[i].content[1][j].text], "")]

\* description?.content. ... || ""
formatDescription(description) ==
  IF description = Null THEN <<"">> ELSE Paragraphs(description[1].content)

RECURSIVE formatComments(_)
\* One block per comment, blocks joined by a newline; "" without comments.
formatComments(comments) ==
  IF comments = << >> THEN <<"">>
  ELSE LET comment == comments[1]
           block == <<"", "[" \o comment.created \o "] Author: "
                            \o comment.author.displayName \o " ("
                            \o comment.author.emailAddress \o ")">>
                    \o Paragraphs([i \in DOMAIN comment.body.content |->
                          [content |-> Some(comment.body.content[i].content)]])
                    \o <<"">>
       IN  IF Len(comments) = 1 THEN block
           ELSE block \o formatComments(Tail(comments))

AssigneeTextOmitted(assignee) ==
  IF assignee = Null THEN ""
  ELSE assignee[1].displayName \o " (" \o assignee[1].emailAddress \o ")"

\* issue.fields.assignee ? `${displayName} (${emailAddress})` : "Unassigned"
AssigneeText(assignee) ==
  IF assignee = Null THEN "Unassigned"
  ELSE assignee[1].displayName \o " (" \o assignee[1].emailAddress \o ")"

\* x ? x.name : fallback
NameOr(opt, fallback) == IF opt = Null THEN fallback ELSE opt[1].name

\* list.map((x) => x.name).join(", ")
Names(list) == Join([i \in DOMAIN list |-> list[i].name], ", ")

\* The text of a link, "" when it has neither an inward nor an outward issue.
LinkText(link) ==
  LET linkedIssue == IF link.inwardIssue # Null THEN link.inwardIssue
                     ELSE link.outwardIssue
  IN  IF linkedIssue = Null THEN ""
      ELSE link.type.name \o " " \o linkedIssue[1].key \o ": "
             \o linkedIssue[1].fields.summary

Blank(line) == line \in {"", "  "}

RECURSIVE TrimStart(_)
TrimStart(lines) ==
  IF lines = << >> THEN lines
  ELSE IF Blank(Head(lines)) THEN TrimStart(Tail(lines)) ELSE lines

RECURSIVE TrimEnd(_)
TrimEnd(lines) ==
  IF lines = << >> THEN lines
  ELSE IF Blank(lines[Len(lines)])
         THEN TrimEnd(SubSeq(lines, 1, Len(lines) - 1)) ELSE lines

\* String.prototype.trim on a text: the blank lines at both ends go.
Trim(lines) == TrimEnd(TrimStart(lines))

documentIdPerRun(issue) == "issue-" \o issue.key \o "-" \o ToString(run)

\* const documentId = `issue-${issue.key}`
documentId(issue) == "issue-" \o issue.key

\* const content = `...`.trim()
Content(issue) ==
  LET f == issue.fields
  IN  Trim(
        <<"",
          "Issue Key: " \o issue.key,
          "ID: " \o issue.id,
          "URL: " \o issue.self,
          "Summary: " \o f.summary,
          "Description:">>
        \o formatDescription(f.description)
        \o <<"",
             "Issue Type: " \o f.issuetype.name,
             "Status: " \o f.status.name,
             "Priority: " \o f.priority.name,
             "Assignee: " \o AssigneeText(f.assignee),
             "Reporter: " \o f.reporter.displayName \o " ("
                \o f.reporter.emailAddress \o ")",
             "Project: " \o f.project.name \o " (" \o f.project.key \o ")",
             "Created: " \o f.created,
             "Updated: " \o f.updated,
             "Resolution: " \o NameOr(f.resolution, "Unresolved"),
             "Resolution Date: " \o TextOr(f.resolutiondate, "N/A"),
             "Labels: " \o Join(f.labels, ", "),
             "Components: " \o Names(f.components),
             "Sprint: " \o NameOr(f.sprint, "N/A"),
             "Epic: " \o NameOr(f.epic, "N/A"),
             "Time Tracking:",
             "  Original Estimate: " \o NumberOr(f.timeoriginalestimate, "N/A"),
             "  Remaining Estimate: " \o NumberOr(f.timeestimate, "N/A"),
             "  Time Spent: " \o NumberOr(f.timespent, "N/A"),
             "Votes: " \o ToString(f.votes.votes),
             "Watches: " \o ToString(f.watches.watchCount),
             "Fix Versions: " \o Names(f.fixVersions),
             "Affected Versions: " \o Names(f.versions),
             "Subtasks: " \o Join([i \in DOMAIN f.subtasks |->
                 f.subtasks[i].key \o ": " \o f.subtasks[i].fields.summary], ", "),
             "Issue Links: " \o Join(SelectSeq([i \in DOMAIN f.issuelinks |->
                 LinkText(f.issuelinks[i])], LAMBDA t : t # ""), ", "),
             "Attachments: " \o Join([i \in DOMAIN f.attachment |->
                 f.attachment[i].filename], ", "),
             "",
             "Comments:">>
        \o formatComments(f.comment.comments)
        \o <<"  ">>)

\* upsertToDustDatasource builds the content of the sample issue.
Render ==
  /\ pc = "format"
  /\ rendered' = Content(sample[1])
  /\ pc' = "formatted"
  /\ UNCHANGED <<fetchVars, sinkVars, outcome, topError, srcTotal, rejects,
                 hangs, configVars, rerunVars, sample>>

\* ------------------------------------------------------------------ main

ToScheduleIfComplete(issues) == IF fetchEnd = "complete" THEN issues ELSE << >>

\* The issues main hands to limiter.schedule: every one the fetch returned.
ToSchedule(issues) == issues

Settled == {"ok", "failed"}

LimiterAliveUntilReport == pc = "await"

\* The limiter works from its construction on: the catch of main only logs,
\* so timers and requests still pending after main has reported keep running.
LimiterAlive == pc \in {"await", "done"}

ScheduleEachPage ==
  /\ pc = "request"
  /\ pagesOk > 0
  /\ status = << >>
  /\ LET n == Len(allIssues)
         reg == Min(n, maxConcurrent)
     IN  /\ status' = [i \in 1..n |-> IF i <= reg THEN "registered" ELSE "queued"]
         /\ runAt' = [i \in 1..n |-> IF i <= reg THEN clock + (i - 1) * minTime ELSE -1]
         /\ posts' = [i \in 1..n |-> 0]
         /\ running' = reg
         /\ queued' = n - reg
         /\ nextRequest' = clock + reg * minTime
  /\ UNCHANGED <<pc, fetchVars, started, clock, stalls, outcome, topError, envVars>>

\* new Bottleneck({maxConcurrent, minTime}) and recentIssues.map(limiter.schedule):
\* the limiter registers jobs in submission order while fewer than
\* maxConcurrent are registered and unfinished, each to start minTime after
\* the one before it; the others stay queued.
Schedule ==
  /\ pc = "schedule"
  /\ pc' = "await"
  /\ LET n == Len(ToSchedule(recentIssues))
         reg == Min(n, maxConcurrent)
     IN  /\ status' = [i \in 1..n |-> IF i <= reg THEN "registered" ELSE "queued"]
         /\ runAt' = [i \in 1..n |-> IF i <= reg THEN clock + (i - 1) * minTime ELSE -1]
         /\ posts' = [i \in 1..n |-> 0]
         /\ running' = reg
         /\ queued' = n - reg
         /\ nextRequest' = clock + reg * minTime
  /\ UNCHANGED <<fetchVars, started, clock, stalls, outcome, topError, envVars>>

\* The timer of the earliest registered job fires: upsertToDustDatasource
\* builds the document and calls dustApi.post.
Execute ==
  /\ LimiterAlive
  /\ started < Len(status) - queued
  /\ LET i == started + 1
     IN  /\ clock' = Max(clock, runAt[i])
         /\ runAt' = [runAt EXCEPT ![i] = Max(clock, runAt[i])]
         /\ status' = [status EXCEPT ![i] = "executing"]
         /\ posts' = [posts EXCEPT ![i] = @ + 1]
         /\ started' = i
  /\ UNCHANGED <<pc, fetchVars, running, queued, nextRequest, stalls, outcome,
                 topError, envVars>>

\* How the task of a delivery settles: the try/catch of upsertToDustDatasource
\* logs and rethrows.
Settle(accepted) == IF accepted THEN "ok" ELSE "failed"

RetryOnFailureOnce(i) == posts[i] < 2

\* Does the limiter run a failed job again?  No "failed" listener is
\* installed on the limiter, so never.
RetryOnFailure(i) == FALSE

\* The destination never answers the post of task i.
Hung(i) == recentIssues[i] \in hangs

\* The oldest task that has not settled and will be answered, Len(status) + 1
\* when there is none: the settled tasks are the tasks before it that are
\* answered, and at most Reorder - 1 tasks after it.
Oldest ==
  LET n == Len(status)
      done == n - queued - running
      S == {j \in Max(1, done - Reorder + 2)..Min(n, done + 1 + Cardinality(hangs)) :
              status[j] \notin Settled /\ ~Hung(j)}
  IN  IF S = {} THEN n + 1 ELSE CHOOSE j \in S : \A k \in S : j <= k

\* The deliveries the destination may answer now: those in flight among the
\* first Reorder tasks it answers, from the oldest unsettled one on.
Answerable ==
  {i \in Oldest..Min(Len(status), Oldest + Reorder - 1 + Cardinality(hangs)) :
     /\ status[i] = "executing"
     /\ ~Hung(i)
     /\ Cardinality({j \in Oldest..i : ~Hung(j)}) <= Reorder}

\* dustApi.post of task i resolves or rejects; the limiter frees the slot and
\* registers the next queued job.
Complete(i) ==
  /\ LimiterAlive
  /\ LET accepted == recentIssues[i] \notin rejects
     IN  IF ~accepted /\ RetryOnFailure(i)
           THEN /\ posts' = [posts EXCEPT ![i] = @ + 1]
                /\ UNCHANGED <<status, runAt, running, queued, nextRequest>>
           ELSE /\ posts' = posts
                /\ IF queued > 0 /\ running - 1 < maxConcurrent
                     THEN LET q == Len(status) - queued + 1
                          IN  /\ status' = [status EXCEPT ![i] = Settle(accepted),
                                                          ![q] = "registered"]
                              /\ runAt' = [runAt EXCEPT ![q] = Max(nextRequest, clock)]
                              /\ nextRequest' = Max(nextRequest, clock) + minTime
                              /\ queued' = queued - 1
                              /\ running' = running
                     ELSE /\ status' = [status EXCEPT ![i] = Settle(accepted)]
                          /\ running' = running - 1
                          /\ UNCHANGED <<runAt, queued, nextRequest>>
  /\ UNCHANGED <<pc, fetchVars, started, clock, stalls, outcome, topError, envVars>>

\* minTime passes while deliveries are in flight and no start is pending.
Tick ==
  /\ LimiterAlive
  /\ stalls < MaxStall
  /\ started = Len(status) - queued
  /\ Answerable # {}
  /\ clock' = clock + minTime
  /\ stalls' = stalls + 1
  /\ UNCHANGED <<pc, fetchVars, status, posts, runAt, running, queued, started,
                 nextRequest, outcome, topError, envVars>>

PromiseAllIgnoringRejections(st) ==
  IF \A i \in DOMAIN st : st[i] \in Settled THEN "fulfilled" ELSE "pending"

\* Promise.all(tasks): rejected as soon as one task is, fulfilled when all are.
PromiseAll(st) ==
  IF \E i \in DOMAIN st : st[i] = "failed" THEN "rejected"
  ELSE IF \A i \in DOMAIN st : st[i] = "ok" THEN "fulfilled"
  ELSE "pending"

\* await Promise.all(tasks) returns or throws into the catch of main.
AwaitAll ==
  /\ pc = "await"
  /\ LET all == PromiseAll(status)
     IN  /\ all # "pending"
         /\ IF all = "fulfilled"
              THEN /\ outcome' = "success"
                   /\ topError' = topError
              ELSE /\ outcome' = "error"
                   /\ topError' = "delivery"
  /\ pc' = "done"
  /\ UNCHANGED <<fetchVars, sinkVars, envVars>>

FetchNext == IssueRequest \/ RespondPage \/ RequestFails \/ WakeRetry \/ Return

InitLocals ==
  /\ allIssues = << >>
  /\ startAt = 0
  /\ total = 0
  /\ retryCount = 0
  /\ retryAfter = 0
  /\ reqLog = << >>
  /\ lastErr = NoError
  /\ fetchEnd = "running"
  /\ pagesOk = 0
  /\ returnedError = "none"
  /\ recentIssues = << >>
  /\ waited = 0
  /\ advised = "none"
  /\ rateLimited = 0
  /\ firstTotal = -1
  /\ lastTotal = -1
  /\ status = << >>
  /\ posts = << >>
  /\ runAt = << >>
  /\ running = 0
  /\ queued = 0
  /\ started = 0
  /\ nextRequest = 0
  /\ clock = 0
  /\ stalls = 0
  /\ outcome = "none"
  /\ topError = "none"

\* main is called: every required setting has a value.
Configured ==
  /\ env = [v \in EnvNames |-> "set"]
  /\ missingEnvVars = << >>

\* The first run against an empty destination.
FirstRun ==
  /\ run = 1
  /\ prevStore = << >>
  /\ prevIssues = << >>

\* One run of main against an empty destination.
Outside ==
  /\ Configured
  /\ FirstRun
  /\ sample = Null
  /\ rendered = << >>

\* One run of main in which the destination answers every post.
Plain ==
  /\ Outside
  /\ hangs = {}

InitProgram ==
  /\ pc = "request"
  /\ InitLocals

\* The fetch alone, for every total up to MaxTotal.
InitFetch ==
  /\ InitProgram
  /\ Plain
  /\ srcTotal \in 0..MaxTotal
  /\ rejects = {}

SpecFetch == InitFetch /\ [][FetchNext]_vars

SinkNext == Schedule \/ Execute \/ (\E i \in Answerable : Complete(i))
              \/ Tick \/ AwaitAll

Next == FetchNext \/ SinkNext

\* The destination rejects no document, or those of one key.
RejectSets == {{}} \cup {{k} : k \in 1..MaxRejectKey}

\* The totals of the whole-pipeline scenarios: one page, or two.
Totals == (0..MaxSmall) \cup {maxResults + 1}

\* The whole run, from the first page request to the last delivery.
Init ==
  /\ InitProgram
  /\ Plain
  /\ srcTotal \in Totals
  /\ rejects \in RejectSets

Spec == Init /\ [][Next]_vars

\* The sizes of the delivery-only scenarios: below, at and above the ceiling.
SinkSizes == {1, DUST_RATE_LIMIT, MaxTotal}

\* main after a complete fetch of n records.
InitDelivery ==
  /\ \E n \in SinkSizes :
       /\ srcTotal = n
       /\ recentIssues = [i \in 1..n |-> i]
       /\ pagesOk = Max(1, CeilDiv(n, maxResults))
  /\ pc = "schedule"
  /\ Outside
  /\ allIssues = << >>
  /\ startAt = 0
  /\ total = 0
  /\ retryCount = 0
  /\ retryAfter = 0
  /\ reqLog = << >>
  /\ lastErr = NoError
  /\ fetchEnd = "complete"
  /\ returnedError = "none"
  /\ waited = 0
  /\ advised = "none"
  /\ rateLimited = 0
  /\ firstTotal = -1
  /\ lastTotal = -1
  /\ status = << >>
  /\ posts = << >>
  /\ runAt = << >>
  /\ running = 0
  /\ queued = 0
  /\ started = 0
  /\ nextRequest = 0
  /\ clock = 0
  /\ stalls = 0
  /\ outcome = "none"
  /\ topError = "none"

\* The delivery stage alone, every post answered.
InitSink ==
  /\ InitDelivery
  /\ hangs = {}
  /\ rejects \in {{}, {1}}

SpecSink == InitSink /\ [][SinkNext]_vars

\* The whole run of a small fetch, or the delivery stage of the largest one.
InitLive ==
  \/ Init /\ srcTotal <= MaxSmall
  \/ InitSink /\ srcTotal = MaxTotal /\ rejects # {}

\* Every pending response, timer and continuation is eventually handled.
LiveSpec == InitLive /\ [][Next]_vars /\ WF_vars(Next)

\* The fetch against a source that answers every request as it likes.
InitSource ==
  /\ InitProgram
  /\ Plain
  /\ srcTotal = 0
  /\ rejects = {}

SourceNext ==
  IssueRequest \/ RespondAnyPage \/ RequestFails \/ WakeRetry \/ Return

SpecSource == InitSource /\ [][SourceNext]_vars

\* The tasks whose dustApi.post the destination accepted.
Accepted == {i \in DOMAIN status : status[i] = "ok"}

\* The documents of the destination: those it held when the run started,
\* each one replaced by the text posted under its identifier in this run.
DestinationDocs ==
  LET posted == {documentId(Issue(recentIssues[i])) : i \in Accepted}
      TextOf(id) ==
        LET i == CHOOSE j \in Accepted : documentId(Issue(recentIssues[j])) = id
        IN  Content(Issue(recentIssues[i]))
  IN  [id \in DOMAIN prevStore \cup posted |->
         IF id \in posted THEN TextOf(id) ELSE prevStore[id]]

\* The process has ended (main has reported and nothing is pending) and is
\* started again against the same source and the same destination.
Rerun ==
  /\ pc = "done"
  /\ run < MaxRuns
  /\ \A i \in DOMAIN status : status[i] \in Settled
  /\ run' = run + 1
  /\ prevStore' = DestinationDocs
  /\ prevIssues' = recentIssues
  /\ pc' = "request"
  /\ allIssues' = << >>
  /\ startAt' = 0
  /\ total' = 0
  /\ retryCount' = 0
  /\ retryAfter' = 0
  /\ reqLog' = << >>
  /\ lastErr' = NoError
  /\ fetchEnd' = "running"
  /\ pagesOk' = 0
  /\ returnedError' = "none"
  /\ recentIssues' = << >>
  /\ waited' = 0
  /\ advised' = "none"
  /\ rateLimited' = 0
  /\ firstTotal' = -1
  /\ lastTotal' = -1
  /\ status' = << >>
  /\ posts' = << >>
  /\ runAt' = << >>
  /\ running' = 0
  /\ queued' = 0
  /\ started' = 0
  /\ nextRequest' = 0
  /\ clock' = 0
  /\ stalls' = 0
  /\ outcome' = "none"
  /\ topError' = "none"
  /\ UNCHANGED <<srcTotal, rejects, hangs, configVars, formatVars>>

\* Runs of the pipeline over the same one or two issues.
InitRerun ==
  /\ InitProgram
  /\ Plain
  /\ srcTotal \in 1..MaxSmall
  /\ rejects \in RejectSets

RerunNext == Next \/ Rerun

SpecRerun == InitRerun /\ [][RerunNext]_vars

\* The process from its start, with any combination of settings absent, empty
\* or set, and a source of one issue.
InitConfig ==
  /\ pc = "config"
  /\ InitLocals
  /\ FirstRun
  /\ hangs = {}
  /\ sample = Null
  /\ rendered = << >>
  /\ env \in [EnvNames -> EnvValues]
  /\ missingEnvVars = << >>
  /\ srcTotal = 1
  /\ rejects = {}

ConfigNext == CheckConfig \/ Next

SpecConfig == InitConfig /\ [][ConfigNext]_vars

\* upsertToDustDatasource builds the document of one issue, for every
\* combination of null fields, with and without elements in its arrays.
InitFormat ==
  /\ pc = "format"
  /\ InitLocals
  /\ Configured
  /\ FirstRun
  /\ hangs = {}
  /\ srcTotal = 0
  /\ rejects = {}
  /\ sample \in {Some(IssueWith(k, nulls, full)) :
                   k \in 1..MaxSmall, nulls \in SUBSET NullableFields,
                   full \in BOOLEAN}
  /\ rendered = << >>

SpecFormat == InitFormat /\ [][Render]_vars

\* The post of one issue is never answered: the whole run of a small fetch,
\* or the delivery stage of the largest one.
InitHung ==
  \/ /\ InitProgram
     /\ Outside
     /\ srcTotal \in 1..MaxSmall
     /\ rejects \in RejectSets
     /\ hangs \in {{k} : k \in 1..srcTotal}
  \/ /\ InitDelivery
     /\ srcTotal = MaxTotal
     /\ rejects = {}
     /\ hangs = {1}

\* Every pending response, timer and continuation is eventually handled,
\* except the response to the post that hangs.
LiveHung == InitHung /\ [][Next]_vars /\ WF_vars(Next)

\* ------------------------------------------------------------ fetch claims

\* The fetch ended with every page request answered by a page.
NoRequestFailed == pc = "return" /\ Len(reqLog) = pagesOk

\* Number of requests in reqLog at an offset.
RequestsAt(offset) == Cardinality({i \in DOMAIN reqLog : reqLog[i] = offset})

\* The keys of the pages merged so far.
MergedKeys == [i \in 1..Min(pagesOk * maxResults, srcTotal) |-> i]

\* C1, as stated: without a failed request the fetch issues exactly
\* ceil(T/P) page requests and returns exactly T records, for every T >= 0.
C1_Original ==
  NoRequestFailed =>
    /\ Len(reqLog) = CeilDiv(srcTotal, maxResults)
    /\ Len(allIssues) = srcTotal

\* C1, amended: without a failed request the fetch issues exactly
\* max(1, ceil(T/P)) page requests (the do-while issues one request even
\* when T = 0), at the offsets 0, P, 2P, ..., and returns exactly the T
\* records of the source, each once and in order.
C1_Requests ==
  NoRequestFailed =>
    /\ Len(reqLog) = Max(1, CeilDiv(srcTotal, maxResults))
    /\ \A i \in DOMAIN reqLog : reqLog[i] = (i - 1) * maxResults
    /\ allIssues = [i \in 1..srcTotal |-> i]

C1_Witness ==
  /\ NoRequestFailed
  /\ srcTotal = 120
  /\ reqLog = <<0, 50, 100>>
  /\ Len(allIssues) = 120

\* C2: a 429 makes the same offset be requested again, at most RetryLimit
\* times for one page; every request of a call chain is at the current offset
\* and retryCount counts the retries of that page alone; a 429 with no retry
\* left ends the fetch with that offset as the last one requested.
C2_RetryPerPage ==
  /\ \A i \in DOMAIN reqLog : RequestsAt(reqLog[i]) <= RetryLimit + 1
  /\ pc \in {"inflight", "backoff"} =>
        /\ reqLog # << >>
        /\ reqLog[Len(reqLog)] = startAt
        /\ RequestsAt(startAt) = retryCount + 1
  /\ pc = "backoff" =>
        /\ lastErr.response /\ lastErr.status = 429
        /\ retryCount < RetryLimit
  /\ fetchEnd = "exhausted" =>
        /\ pc \in {"return", "schedule"}
        /\ pc = "return" =>
              /\ reqLog[Len(reqLog)] = startAt
              /\ RequestsAt(startAt) = RetryLimit + 1
              /\ retryCount = RetryLimit

C2_Witness ==
  /\ pc = "return"
  /\ fetchEnd = "exhausted"
  /\ reqLog = <<0, 0, 0, 50, 50, 50, 50>>

Scheduled == pc \in {"await", "done"}

Tasks == DOMAIN status

InFlight == Cardinality({i \in Tasks : status[i] = "executing"})

AllSettled == \A i \in Tasks : status[i] \in Settled

C5_Ceiling ==
  Scheduled =>
    /\ InFlight <= DUST_RATE_LIMIT
    /\ running <= DUST_RATE_LIMIT
    /\ started > 0 =>
         Cardinality({i \in 1..started : runAt[i] > runAt[started] - WindowMs})
           <= DUST_RATE_LIMIT

C5_Witness ==
  /\ started > DUST_RATE_LIMIT
  /\ InFlight = DUST_RATE_LIMIT
  /\ runAt[started] - runAt[started - DUST_RATE_LIMIT] = WindowMs

\* C6: every record the fetch returned gets exactly one delivery request:
\* never a second one, also after a failure, and eventually one.
C6_ExactlyOnce ==
  /\ [](Scheduled =>
          /\ Tasks = DOMAIN recentIssues
          /\ \A i \in Tasks :
               posts[i] = IF status[i] \in {"queued", "registered"} THEN 0 ELSE 1)
  /\ <>[](/\ Scheduled
          /\ \A i \in DOMAIN recentIssues : posts[i] = 1)

C6_Witness ==
  /\ pc = "done"
  /\ Len(recentIssues) > maxResults
  /\ AllSettled
  /\ \E i \in Tasks : status[i] = "failed"
  /\ \A i \in Tasks : posts[i] = 1

\* Exactly one of the scheduled deliveries is rejected by the destination.
OneRejected ==
  /\ Scheduled
  /\ Cardinality({i \in Tasks : recentIssues[i] \in rejects}) = 1

\* C7: when exactly one of the scheduled deliveries is rejected, every other
\* one is eventually started, accepted and settled as a success.
C7_Isolation ==
  OneRejected ~>
    (\A i \in Tasks : recentIssues[i] \notin rejects =>
        (status[i] = "ok" /\ posts[i] = 1))

C7_Witness ==
  /\ OneRejected
  /\ Len(status) > maxResults
  /\ status[1] = "failed"
  /\ outcome = "error"
  /\ \A i \in Tasks : i # 1 => status[i] = "ok"

\* C8, as stated: when main reports its terminal state, every scheduled
\* delivery has resolved.
C8_Original == outcome # "none" => AllSettled

\* C9, as stated: a failed upsert never reaches the catch of main and does
\* not change what the run reports.
C9_Original ==
  /\ topError # "delivery"
  /\ (\E i \in Tasks : status[i] = "failed") => outcome # "error"

\* C10: the deliveries scheduled are exactly the records accumulated when
\* the fetch ended, one task per record: those of the k pages merged before
\* a failure, none when no page was merged; and when the limiter is idle
\* again a request has been made for each of them.
C10_ScheduledIsFetched ==
  Scheduled =>
    /\ Tasks = DOMAIN recentIssues
    /\ recentIssues = MergedKeys
    /\ pagesOk = 0 => (Tasks = {} /\ started = 0)
    /\ (running = 0 /\ queued = 0) => \A i \in Tasks : posts[i] = 1

C10_Witness ==
  /\ fetchEnd \in {"fault", "exhausted"}
  /\ pagesOk = 1
  /\ srcTotal > maxResults
  /\ Len(status) = maxResults
  /\ AllSettled
  /\ \A i \in Tasks : posts[i] = 1

\* ------------------------------------------------------ retry wait (C11)

\* The seconds the retried 429 asked for: 60 when it had no retry-after.
AdvisedSeconds ==
  CASE advised = NoHeader -> 60
    [] advised = "2" -> 2
    [] OTHER -> 0

\* C11: a retry is issued only after the d seconds of its 429 have elapsed
\* (60 when the header is absent); while the loop runs every 429 has caused
\* exactly one retry; and once the retried request is answered by a page the
\* accumulator, the offset and the total are those of a fetch without 429.
C11_RetryAfterWait ==
  /\ (retryCount > 0 /\ pc # "backoff") => waited >= AdvisedSeconds * 1000
  /\ (fetchEnd = "running" /\ pc \in {"request", "backoff"}) =>
       Len(reqLog) = pagesOk + rateLimited
  /\ (fetchEnd = "running" /\ pc = "inflight") =>
       Len(reqLog) = pagesOk + rateLimited + 1
  /\ (pc \in {"request", "return"} /\ fetchEnd \in {"running", "complete"}) =>
       /\ allIssues = MergedKeys
       /\ startAt = pagesOk * maxResults
       /\ pagesOk > 0 => total = srcTotal
       /\ Len(reqLog) = pagesOk + rateLimited

\* One 429 without header on the first page, retried 60 s later and answered
\* by the page, which is merged; the second page is next.
C11_Witness ==
  /\ pc = "request"
  /\ reqLog = <<0, 0>>
  /\ rateLimited = 1
  /\ advised = NoHeader
  /\ waited = 60000
  /\ pagesOk = 1
  /\ Len(allIssues) = maxResults
  /\ startAt = maxResults

\* --------------------------------------------------- startup check (C12)

\* The seven required settings.
SevenSettings ==
  {"JIRA_SUBDOMAIN", "JIRA_EMAIL", "JIRA_API_TOKEN", "DUST_API_KEY",
   "DUST_WORKSPACE_ID", "DUST_VAULT_ID", "DUST_DATASOURCE_ID"}

\* C12: once the startup check has run with one of the seven required
\* settings absent, the process has aborted, no page request and no delivery
\* has been issued, and the error names every absent setting and no setting
\* that has a value (it names the settings without a value: absent or empty).
C12_AbortNamesMissing ==
  LET absent == {v \in SevenSettings : env[v] = "absent"}
      named == Range(missingEnvVars)
  IN  /\ (pc # "config" /\ absent # {}) =>
           /\ pc = "aborted"
           /\ absent \subseteq named
           /\ named = {v \in SevenSettings : env[v] # "set"}
           /\ Len(missingEnvVars) = Cardinality(named)
      /\ pc = "aborted" =>
           /\ reqLog = << >> /\ pagesOk = 0 /\ rateLimited = 0
           /\ status = << >> /\ posts = << >> /\ started = 0
           /\ outcome = "none"

\* JIRA_EMAIL and DUST_VAULT_ID are absent, the rest is set: the error names
\* these two.
C12_Witness ==
  /\ pc = "aborted"
  /\ missingEnvVars = <<"JIRA_EMAIL", "DUST_VAULT_ID">>
  /\ \A v \in EnvNames :
       env[v] = IF v \in {"JIRA_EMAIL", "DUST_VAULT_ID"} THEN "absent" ELSE "set"

\* ------------------------------------------------------- formatting (C14)

\* The lines of a document whose place does not depend on the issue, and
\* the nullable field each one renders.
LineOf ==
  [assignee |-> 11, resolution |-> 16, resolutiondate |-> 17, sprint |-> 20,
   epic |-> 21, timeoriginalestimate |-> 23, timeestimate |-> 24,
   timespent |-> 25, description |-> 6]

\* What a line shows when its field is null.
PlaceholderLine ==
  [assignee |-> "Assignee: Unassigned",
   resolution |-> "Resolution: Unresolved",
   resolutiondate |-> "Resolution Date: N/A",
   sprint |-> "Sprint: N/A",
   epic |-> "Epic: N/A",
   timeoriginalestimate |-> "  Original Estimate: N/A",
   timeestimate |-> "  Remaining Estimate: N/A",
   timespent |-> "  Time Spent: N/A",
   description |-> ""]

\* The labels of the lines 1..34, in their order.
FieldLabels ==
  <<"Issue Key: ", "ID: ", "URL: ", "Summary: ", "Description:", "", "",
    "Issue Type: ", "Status: ", "Priority: ", "Assignee: ", "Reporter: ",
    "Project: ", "Created: ", "Updated: ", "Resolution: ", "Resolution Date: ",
    "Labels: ", "Components: ", "Sprint: ", "Epic: ", "Time Tracking:",
    "  Original Estimate: ", "  Remaining Estimate: ", "  Time Spent: ",
    "Votes: ", "Watches: ", "Fix Versions: ", "Affected Versions: ",
    "Subtasks: ", "Issue Links: ", "Attachments: ", "", "Comments:">>

\* C14: the document of an issue is built whatever nullable fields are
\* null: each null field shows its placeholder on its fixed line, and for an
\* issue with every nullable field null and empty arrays the document is
\* exactly the 34 field lines, each label in its place with nothing or its
\* placeholder after it (among them "Assignee: Unassigned" and
\* "Resolution: Unresolved").
C14_PlaceholdersInPlace ==
  pc = "formatted" =>
    LET f == sample[1].fields
    IN  /\ Len(rendered) >= Len(FieldLabels)
        /\ \A name \in NullableFields :
             f[name] = Null => rendered[LineOf[name]] = PlaceholderLine[name]
        /\ ((\A name \in NullableFields : f[name] = Null) /\ f.labels = << >>) =>
             /\ Len(rendered) = Len(FieldLabels)
             /\ \A i \in 1..4 \cup 8..10 \cup 12..15 \cup 26..27 :
                  rendered[i] # FieldLabels[i]
             /\ \A i \in {5, 6, 7, 18, 19, 22} \cup 28..34 :
                  rendered[i] = FieldLabels[i]
             /\ \A name \in NullableFields :
                  rendered[LineOf[name]] = PlaceholderLine[name]

\* The document of an issue with every nullable field null and empty arrays.
C14_Witness ==
  /\ pc = "formatted"
  /\ \A name \in NullableFields : sample[1].fields[name] = Null
  /\ sample[1].fields.labels = << >>
  /\ sample[1].fields.comment.comments = << >>
  /\ rendered[1] = "Issue Key: PRJ-1"
  /\ rendered[11] = "Assignee: Unassigned"
  /\ rendered[16] = "Resolution: Unresolved"
  /\ rendered[34] = "Comments:"

\* ------------------------------------------------------- idempotence (C13)

\* Issues that share keys and differ in everything else.
IssueVariants ==
  {IssueWith(k, nulls, full) :
     k \in 1..MaxSmall, nulls \in {{}, NullableFields}, full \in BOOLEAN}

\* C13: the identifier of a document is "issue-" + key and two issues have
\* the same identifier exactly when they have the same key; over all runs
\* the destination never holds more documents than the source has keys it
\* accepts, and exactly one per such key once a run has fetched and settled
\* them all; and in a run that delivers the records of the run before it,
\* the destination keeps exactly the documents, with the contents, it had
\* when that run ended.
C13_RerunIdempotent ==
  /\ \A a, b \in IssueVariants :
       /\ documentId(a) = "issue-" \o a.key
       /\ (a.key = b.key) <=> (documentId(a) = documentId(b))
  /\ Scheduled =>
       Cardinality(DOMAIN DestinationDocs) <= Cardinality((1..srcTotal) \ rejects)
  /\ (Scheduled /\ AllSettled /\ fetchEnd = "complete") =>
       Cardinality(DOMAIN DestinationDocs) = Cardinality((1..srcTotal) \ rejects)
  /\ (run > 1 /\ Scheduled /\ recentIssues = prevIssues) =>
       DestinationDocs = prevStore

\* The second run has delivered both records again; both were accepted in
\* the first run too.
C13_Witness ==
  /\ run = 2
  /\ pc = "done"
  /\ outcome = "success"
  /\ recentIssues = <<1, 2>>
  /\ prevIssues = <<1, 2>>
  /\ Accepted = {1, 2}
  /\ DOMAIN prevStore = {"issue-PRJ-1", "issue-PRJ-2"}
  /\ DestinationDocs = prevStore

\* ---------------------------------------------------- page order (C15)

\* The fetch has not returned yet.
Fetching == pc \in {"request", "inflight", "backoff", "return"}

\* Page requests issued and not yet answered: every request is answered by a
\* page, by a 429, or by the one other error that ends the fetch.
InFlightRequests ==
  Len(reqLog) - pagesOk - rateLimited - (IF fetchEnd = "fault" THEN 1 ELSE 0)

\* C15: at most one page request is in flight; the first request has offset
\* 0; every request repeats the offset of the request before it (a retry)
\* or is exactly maxResults above it; the offset is maxResults times the
\* number of merged pages, so it never decreases and only a merged page
\* advances it; and the request after a merged page is at the new offset.
C15_SequentialOffsets ==
  Fetching =>
    /\ InFlightRequests = (IF pc = "inflight" THEN 1 ELSE 0)
    /\ reqLog # << >> => reqLog[1] = 0
    /\ \A i \in 2..Len(reqLog) :
         reqLog[i] \in {reqLog[i - 1], reqLog[i - 1] + maxResults}
    /\ startAt = pagesOk * maxResults
    /\ pc \in {"inflight", "backoff"} => reqLog[Len(reqLog)] = startAt
    /\ (pc = "request" /\ pagesOk > 0) =>
         reqLog[Len(reqLog)] = startAt - maxResults

\* A 429 on the first page, its retry merged, and the second page requested.
C15_Witness ==
  /\ pc = "inflight"
  /\ reqLog = <<0, 0, maxResults>>
  /\ pagesOk = 1
  /\ startAt = maxResults

\* ---------------------------------------------------- latest total (C16)

\* C16: the loop compares the accumulated count with the total of the page
\* merged last: it asks for another page only while the count is below that
\* total and ends as soon as the count has reached it, whatever earlier
\* pages reported; a first page that reports 0 ends the fetch at once, with
\* the issues of that page only (none from a source that holds none).
C16_LatestTotal ==
  (Fetching /\ pagesOk > 0) =>
    /\ total = lastTotal
    /\ fetchEnd = "running" => Len(allIssues) < lastTotal
    /\ (pc = "return" /\ fetchEnd = "complete") => Len(allIssues) >= lastTotal
    /\ firstTotal = 0 =>
         /\ pagesOk = 1
         /\ pc = "return"
         /\ fetchEnd = "complete"
         /\ Len(allIssues) <= MaxPageCount
         /\ reqLog = [i \in 1..(1 + rateLimited) |-> 0]

\* The first page holds one issue and reports 2, the second holds none and
\* reports 1: the fetch ends after two pages with one issue.
C16_Witness ==
  /\ pc = "return"
  /\ fetchEnd = "complete"
  /\ firstTotal = 2
  /\ lastTotal = 1
  /\ pagesOk = 2
  /\ allIssues = <<1>>
  /\ reqLog = <<0, maxResults>>

\* ----------------------------------------------------- termination (C18)

\* C18, as stated: the fetch returns after finitely many page requests
\* whatever pages the source sends.  The loop decides on allIssues.length
\* and total alone, so for this to hold it must not go round after a page
\* that left both as they were: a source that keeps sending that page would
\* keep it going round for ever.
C18_Original ==
  [][(pc = "inflight" /\ pc' = "request")
       => <<Len(allIssues'), total'>> # <<Len(allIssues), total>>]_vars

\* ------------------------------------------------------ hung delivery (C17)

\* C17: when the post of one delivery is never answered, every other
\* scheduled delivery is eventually started (its one post is made) and
\* resolves.
C17_HungDoesNotBlock ==
  (Scheduled /\ hangs # {}) ~>
    (\A i \in Tasks : ~Hung(i) => (posts[i] = 1 /\ status[i] \in Settled))

\* More deliveries than the limiter runs at once; the first hangs in its
\* slot, all the others were accepted.
C17_Witness ==
  /\ Len(status) = MaxTotal
  /\ hangs = {1}
  /\ status[1] = "executing"
  /\ posts[1] = 1
  /\ \A i \in 2..MaxTotal : status[i] = "ok" /\ posts[i] = 1
  /\ running = 1

\* ---------------------------------------------------- terminal report (C19)

\* C19: main reports once (a report is never followed by another or changed);
\* it has reported success only if every scheduled delivery resolved
\* successfully, and never when a delivery has failed.
C19_OneReport ==
  /\ [](outcome = "success" => \A i \in Tasks : status[i] = "ok")
  /\ []((\E i \in Tasks : status[i] = "failed") => outcome # "success")
  /\ [](outcome # "none" <=> pc = "done")
  /\ [][outcome # "none" => (outcome' = outcome /\ pc' = "done")]_vars

\* Of two deliveries the first failed and the second was accepted: the run
\* has reported the error, and nothing else.
C19_Witness ==
  /\ pc = "done"
  /\ outcome = "error"
  /\ topError = "delivery"
  /\ status = <<"failed", "ok">>

\* ------------------------------------------------ fetch before delivery (C20)

\* C20: while a page request or a retry wait of the fetch is pending, and
\* until the fetch has returned, no delivery is scheduled and no post is
\* made; once the deliveries are scheduled the fetch has ended (no request
\* on record, no retry timer pending) and no page request is issued again.
C20_FetchThenDeliver ==
  /\ []((Fetching \/ pc = "schedule") =>
         (status = << >> /\ posts = << >> /\ started = 0 /\ running = 0))
  /\ [](Scheduled => (reqLog = << >> /\ retryAfter = 0 /\ fetchEnd # "running"))
  /\ [][Scheduled => (Scheduled' /\ reqLog' = reqLog)]_vars

\* The first post of a delivery is made after a fetch of two pages.
C20_Witness ==
  /\ pc = "await"
  /\ pagesOk = 2
  /\ Len(status) = maxResults + 1
  /\ started = 1
  /\ posts[1] = 1
  /\ reqLog = << >>

====
